---- MODULE Spec2Model ----
(***************************************************************************)
(* Model of pyhelper (src/src/main.rs): PythonPackage::parse,              *)
(* PythonPackage::conflicts_with and main, together with the parts of the  *)
(* regex and semver crates those functions call.                           *)
(*                                                                         *)
(* A Rust string is a sequence of one-character strings, so that the       *)
(* regular expression, the operator replacements, the requirement parser   *)
(* and the requirement formatter all work on the text itself.              *)
(***************************************************************************)
EXTENDS Integers, Sequences, FiniteSets, TLC

(***************************************************************************)
(* Characters                                                              *)
(***************************************************************************)
LF == "\n"

Digits == {"0", "1", "2", "3", "4", "5", "6", "7", "8", "9"}

Letters ==
    {"a", "b", "c", "d", "e", "f", "g", "h", "i", "j", "k", "l", "m",
     "n", "o", "p", "q", "r", "s", "t", "u", "v", "w", "x", "y", "z",
     "A", "B", "C", "D", "E", "F", "G", "H", "I", "J", "K", "L", "M",
     "N", "O", "P", "Q", "R", "S", "T", "U", "V", "W", "X", "Y", "Z"}

\* The bytes a semver identifier may hold, in ASCII order.
ByteOrder ==
    <<"-", "0", "1", "2", "3", "4", "5", "6", "7", "8", "9",
      "A", "B", "C", "D", "E", "F", "G", "H", "I", "J", "K", "L", "M",
      "N", "O", "P", "Q", "R", "S", "T", "U", "V", "W", "X", "Y", "Z",
      "a", "b", "c", "d", "e", "f", "g", "h", "i", "j", "k", "l", "m",
      "n", "o", "p", "q", "r", "s", "t", "u", "v", "w", "x", "y", "z">>

ByteRank(c) == CHOOSE i \in 1..Len(ByteOrder) : ByteOrder[i] = c

DigitVal(c) ==
    CASE c = "0" -> 0 [] c = "1" -> 1 [] c = "2" -> 2 [] c = "3" -> 3
      [] c = "4" -> 4 [] c = "5" -> 5 [] c = "6" -> 6 [] c = "7" -> 7
      [] c = "8" -> 8 [] c = "9" -> 9

DigitChar(d) == <<"0", "1", "2", "3", "4", "5", "6", "7", "8", "9">>[d + 1]

\* The character class [a-zA-Z0-9_-] of the regular expression.
IsNameChar(c) == c \in Letters \cup Digits \cup {"_", "-"}

Drop(s, n) == SubSeq(s, n + 1, Len(s))

StartsWith(s, p) == Len(s) >= Len(p) /\ SubSeq(s, 1, Len(p)) = p

SetMax(S) == CHOOSE x \in S : \A y \in S : y <= x

\* A u64 is four limbs of 16 bits, the most significant first.
Limb == 65536

\* The u64 of a number below Limb.
U64(n) == <<0, 0, 0, n>>

\* a < b on u64.
U64Less(a, b) == \E i \in 1..4 : a[i] < b[i] /\ \A j \in 1..(i - 1) : a[j] = b[j]

\* The limbs of a product or sum whose limbs, carries included, are
\* l1..l4 from the most significant: None when a carry leaves the 64 bits.
Carried(l1, l2, l3, l4) ==
    IF l1 \div Limb # 0 THEN <<>>
    ELSE << <<l1 % Limb, l2 % Limb, l3 % Limb, l4 % Limb>> >>

Carry3(v, m, l4) == v[3] * m + l4 \div Limb

Carry2(v, m, l4) == v[2] * m + Carry3(v, m, l4) \div Limb

Carry1(v, m, l4) == v[1] * m + Carry2(v, m, l4) \div Limb

\* v * m + a in 64 bits, for m and a below 16: None on overflow.
MulAdd(v, m, a) ==
    Carried(Carry1(v, m, v[4] * m + a), Carry2(v, m, v[4] * m + a),
            Carry3(v, m, v[4] * m + a), v[4] * m + a)

\* u64::checked_mul by a small factor.
checked_mul(v, m) == MulAdd(v, m, 0)

\* u64::checked_add of a small number.
checked_add(v, a) == MulAdd(v, 1, a)

\* The remainders of the long division of v by d, limb by limb.
Rem1(v, d) == v[1] % d

Rem2(v, d) == (Rem1(v, d) * Limb + v[2]) % d

Rem3(v, d) == (Rem2(v, d) * Limb + v[3]) % d

\* v % d and v / d on u64, for d below 16.
U64Rem(v, d) == (Rem3(v, d) * Limb + v[4]) % d

U64Div(v, d) ==
    <<v[1] \div d, (Rem1(v, d) * Limb + v[2]) \div d,
      (Rem2(v, d) * Limb + v[3]) \div d, (Rem3(v, d) * Limb + v[4]) \div d>>

\* u64's Display: the decimal digits of v.
RECURSIVE ToDecimal(_)
ToDecimal(v) ==
    IF U64Less(v, U64(10)) THEN <<DigitChar(v[4])>>
    ELSE ToDecimal(U64Div(v, 10)) \o <<DigitChar(U64Rem(v, 10))>>

(***************************************************************************)
(* regex: ^([a-zA-Z0-9_-]+)(.*?)$                                          *)
(***************************************************************************)
\* Group 1 is a run of name characters starting at the first character,
\* group 2 a run of characters other than line feed ("." excludes "\n"),
\* and "$" holds only at the end of the text.  Group 1 is greedy, so of
\* the ways to match, the one with the longest group 1 is taken.
RegexCaptures(input) ==
    LET n == Len(input)
        ks == {k \in 1..n :
                 /\ \A i \in 1..k : IsNameChar(input[i])
                 /\ \A i \in (k + 1)..n : input[i] # LF}
    IN IF ks = {} THEN [ok |-> FALSE]
       ELSE [ok |-> TRUE,
             name |-> SubSeq(input, 1, SetMax(ks)),
             rest |-> Drop(input, SetMax(ks))]

(***************************************************************************)
(* str::replace                                                            *)
(***************************************************************************)
RECURSIVE Replace(_, _, _)
Replace(s, from, to) ==
    IF Len(s) < Len(from) THEN s
    ELSE IF StartsWith(s, from)
         THEN to \o Replace(Drop(s, Len(from)), from, to)
         ELSE <<Head(s)>> \o Replace(Tail(s), from, to)

\* A variant that leaves "==" as it is.
Cleaned_NoEq(version_str) ==
    Replace(Replace(version_str, <<"~", "=">>, <<"~">>), <<"!", "=">>, <<"!">>)

\* The chain of replacements of PythonPackage::parse.
Cleaned(version_str) ==
    Replace(Replace(Replace(Replace(Replace(version_str,
        <<">", "=">>, <<">", "=">>),
        <<"<", "=">>, <<"<", "=">>),
        <<"=", "=">>, <<"=">>),
        <<"~", "=">>, <<"~">>),
        <<"!", "=">>, <<"!">>)

(***************************************************************************)
(* semver: the parser (VersionReq::from_str, Version::parse)               *)
(***************************************************************************)
\* Option<u64>: None is the empty sequence, Some(v) the sequence <<v>>.
NoneOpt == <<>>

Some(v) == <<v>>

IsSome(o) == Len(o) = 1

Err == [ok |-> FALSE]

\* str::trim_start_matches(' ')
RECURSIVE TrimSpaces(_)
TrimSpaces(s) ==
    IF s # <<>> /\ Head(s) = " " THEN TrimSpaces(Tail(s)) ELSE s

\* The loop of numeric_identifier: len digits read so far, of value `value`.
\* A digit that follows a value of 0 is a leading zero; sum is
\* value.checked_mul(10).and_then(|value| value.checked_add(digit)), and
\* None is an overflow of u64.
RECURSIVE NumericLoop(_, _, _)
NumericSum(input, len, sum) ==
    IF IsSome(sum) THEN NumericLoop(input, len + 1, sum[1]) ELSE Err

AndThenAdd(product, digit) ==
    IF IsSome(product) THEN checked_add(product[1], digit) ELSE NoneOpt

NumericLoop(input, len, value) ==
    IF len < Len(input) /\ input[len + 1] \in Digits
    THEN IF value = U64(0) /\ len > 0 THEN Err
         ELSE NumericSum(input, len,
                         AndThenAdd(checked_mul(value, 10), DigitVal(input[len + 1])))
    ELSE IF len > 0
         THEN [ok |-> TRUE, value |-> value, rest |-> Drop(input, len)]
         ELSE Err

numeric_identifier(input) == NumericLoop(input, 0, U64(0))

\* wildcard: a leading "*", "x" or "X".
wildcard(input) ==
    IF input # <<>> /\ Head(input) \in {"*", "x", "X"}
    THEN [ok |-> TRUE, rest |-> Tail(input)]
    ELSE Err

\* dot: a leading "." is required.
dot(input) ==
    IF input # <<>> /\ Head(input) = "."
    THEN [ok |-> TRUE, rest |-> Tail(input)]
    ELSE Err

\* The loop of identifier: acc characters of complete segments (with their
\* dots) and seg characters of the current segment have been read.
RECURSIVE IdentifierLoop(_, _, _, _, _)
IdentifierLoop(input, acc, seg, nondigit, isPre) ==
    LET at == acc + seg + 1
        c  == IF at <= Len(input) THEN input[at] ELSE "" IN
    IF c \in Letters \cup {"-"}
    THEN IdentifierLoop(input, acc, seg + 1, TRUE, isPre)
    ELSE IF c \in Digits
    THEN IdentifierLoop(input, acc, seg + 1, nondigit, isPre)
    ELSE IF seg = 0
         THEN IF acc = 0 /\ c # "."
              THEN [ok |-> TRUE, str |-> <<>>, rest |-> input]
              ELSE Err
    ELSE IF isPre /\ seg > 1 /\ ~nondigit /\ input[acc + 1] = "0"
         THEN Err
    ELSE IF c = "."
         THEN IdentifierLoop(input, acc + seg + 1, 0, FALSE, isPre)
         ELSE [ok |-> TRUE,
               str |-> SubSeq(input, 1, acc + seg),
               rest |-> Drop(input, acc + seg)]

prerelease_identifier(input) == IdentifierLoop(input, 0, 0, FALSE, TRUE)

build_identifier(input) == IdentifierLoop(input, 0, 0, FALSE, FALSE)

\* op: the comparison operator at the start of a comparator; Caret when
\* there is none (dflt tells the two apart).
op(input) ==
    IF StartsWith(input, <<"=">>)
    THEN [op |-> "Exact", rest |-> Drop(input, 1), dflt |-> FALSE]
    ELSE IF StartsWith(input, <<">", "=">>)
    THEN [op |-> "GreaterEq", rest |-> Drop(input, 2), dflt |-> FALSE]
    ELSE IF StartsWith(input, <<">">>)
    THEN [op |-> "Greater", rest |-> Drop(input, 1), dflt |-> FALSE]
    ELSE IF StartsWith(input, <<"<", "=">>)
    THEN [op |-> "LessEq", rest |-> Drop(input, 2), dflt |-> FALSE]
    ELSE IF StartsWith(input, <<"<">>)
    THEN [op |-> "Less", rest |-> Drop(input, 1), dflt |-> FALSE]
    ELSE IF StartsWith(input, <<"~">>)
    THEN [op |-> "Tilde", rest |-> Drop(input, 1), dflt |-> FALSE]
    ELSE IF StartsWith(input, <<"^">>)
    THEN [op |-> "Caret", rest |-> Drop(input, 1), dflt |-> FALSE]
    ELSE [op |-> "Caret", rest |-> input, dflt |-> TRUE]

\* The minor or patch part of a comparator: absent, a wildcard, or a number.
\* kind is "none", "wild", "num" or "err".
NumberPart(n, text) ==
    IF n.ok THEN [kind |-> "num", value |-> Some(n.value), rest |-> n.rest]
    ELSE [kind |-> "err", value |-> NoneOpt, rest |-> text]

WildPart(w, text) ==
    IF w.ok THEN [kind |-> "wild", value |-> NoneOpt, rest |-> w.rest]
    ELSE NumberPart(numeric_identifier(Tail(text)), text)

ComparatorPart(text) ==
    IF StartsWith(text, <<".">>) THEN WildPart(wildcard(Tail(text)), text)
    ELSE [kind |-> "none", value |-> NoneOpt, rest |-> text]

\* What may follow a patch number: "-" and a pre-release identifier, then
\* "+" and build metadata, neither of them empty.  The build metadata is
\* parsed and dropped: it is kept neither in a Comparator nor, here, in a
\* Version, whose build metadata takes no part in matching.
BuildRead(pre, b) ==
    IF b.ok /\ b.str # <<>> THEN [ok |-> TRUE, pre |-> pre, rest |-> b.rest]
    ELSE Err

AfterPre(pre, text) ==
    IF StartsWith(text, <<"+">>) THEN BuildRead(pre, build_identifier(Tail(text)))
    ELSE [ok |-> TRUE, pre |-> pre, rest |-> text]

PreRead(p) ==
    IF p.ok /\ p.str # <<>> THEN AfterPre(p.str, p.rest) ELSE Err

PreAndBuild(text) ==
    IF StartsWith(text, <<"-">>) THEN PreRead(prerelease_identifier(Tail(text)))
    ELSE AfterPre(<<>>, text)

\* comparator, from its last step back to its first: the operator o, then
\* the major number, the minor part, the patch part and what follows it.
ComparatorEnd(o, major, minor, patch, tl) ==
    IF ~tl.ok THEN Err
    ELSE [ok   |-> TRUE,
          cmp  |-> [op    |-> IF o.dflt /\ "wild" \in {minor.kind, patch.kind}
                              THEN "Wildcard" ELSE o.op,
                    major |-> major.value,
                    minor |-> minor.value,
                    patch |-> patch.value,
                    pre   |-> tl.pre],
          rest |-> TrimSpaces(tl.rest)]

ComparatorAfterPatch(o, major, minor, patch) ==
    IF patch.kind = "err" \/ (patch.kind = "num" /\ minor.kind = "wild") THEN Err
    ELSE IF patch.kind = "num"
    THEN ComparatorEnd(o, major, minor, patch, PreAndBuild(patch.rest))
    ELSE ComparatorEnd(o, major, minor, patch,
                       [ok |-> TRUE, pre |-> <<>>, rest |-> patch.rest])

ComparatorAfterMinor(o, major, minor) ==
    IF minor.kind = "err" THEN Err
    ELSE ComparatorAfterPatch(o, major, minor, ComparatorPart(minor.rest))

ComparatorAfterMajor(o, major) ==
    IF ~major.ok THEN Err
    ELSE ComparatorAfterMinor(o, major, ComparatorPart(major.rest))

ComparatorAfterOp(o) ==
    ComparatorAfterMajor(o, numeric_identifier(TrimSpaces(o.rest)))

comparator(input) == ComparatorAfterOp(op(input))

MAX_COMPARATORS == 32

\* version_req: comparators separated by commas, at most MAX_COMPARATORS.
RECURSIVE version_req(_, _)
ReqJoin(c, more) ==
    IF more.ok THEN [ok |-> TRUE, comparators |-> <<c.cmp>> \o more.comparators]
    ELSE Err

ReqAfterComparator(c, depth) ==
    IF ~c.ok THEN Err
    ELSE IF c.rest = <<>> THEN [ok |-> TRUE, comparators |-> <<c.cmp>>]
    ELSE IF Head(c.rest) # "," THEN Err
    ELSE IF depth + 1 = MAX_COMPARATORS THEN Err
    ELSE ReqJoin(c, version_req(TrimSpaces(Tail(c.rest)), depth + 1))

version_req(input, depth) == ReqAfterComparator(comparator(input), depth)

\* VersionReq::STAR: no comparator.
STAR == [comparators |-> <<>>]

ReqOf(r) ==
    IF r.ok THEN [ok |-> TRUE, req |-> [comparators |-> r.comparators]] ELSE Err

ReqFromTrimmed(t) ==
    IF wildcard(t).ok
    THEN IF TrimSpaces(wildcard(t).rest) = <<>>
         THEN [ok |-> TRUE, req |-> STAR]
         ELSE Err
    ELSE ReqOf(version_req(t, 0))

\* VersionReq::from_str
VersionReqFromStr(text) == ReqFromTrimmed(TrimSpaces(text))

\* Version::parse, from its last step back to its first.
VersionEnd(major, minor, patch, tl) ==
    IF tl.ok /\ tl.rest = <<>>
    THEN [ok |-> TRUE,
          ver |-> [major |-> major.value, minor |-> minor.value,
                   patch |-> patch.value, pre |-> tl.pre]]
    ELSE Err

VersionAfterPatch(major, minor, patch) ==
    IF ~patch.ok THEN Err
    ELSE VersionEnd(major, minor, patch, PreAndBuild(patch.rest))

VersionAfterMinor(major, minor) ==
    IF ~minor.ok THEN Err
    ELSE IF ~dot(minor.rest).ok THEN Err
    ELSE VersionAfterPatch(major, minor, numeric_identifier(dot(minor.rest).rest))

VersionAfterMajor(major) ==
    IF ~major.ok THEN Err
    ELSE IF ~dot(major.rest).ok THEN Err
    ELSE VersionAfterMinor(major, numeric_identifier(dot(major.rest).rest))

VersionParse(text) ==
    IF text = <<>> THEN Err ELSE VersionAfterMajor(numeric_identifier(text))

(***************************************************************************)
(* semver: Display of VersionReq                                           *)
(***************************************************************************)
OpText(o) ==
    CASE o = "Exact" -> <<"=">>
      [] o = "Greater" -> <<">">>
      [] o = "GreaterEq" -> <<">", "=">>
      [] o = "Less" -> <<"<">>
      [] o = "LessEq" -> <<"<", "=">>
      [] o = "Tilde" -> <<"~">>
      [] o = "Caret" -> <<"^">>
      [] o = "Wildcard" -> <<>>

ComparatorToString(cmp) ==
    OpText(cmp.op) \o ToDecimal(cmp.major) \o
    (IF IsSome(cmp.minor)
     THEN <<".">> \o ToDecimal(cmp.minor[1]) \o
          (IF IsSome(cmp.patch)
           THEN <<".">> \o ToDecimal(cmp.patch[1]) \o
                (IF cmp.pre # <<>> THEN <<"-">> \o cmp.pre ELSE <<>>)
           ELSE IF cmp.op = "Wildcard" THEN <<".", "*">> ELSE <<>>)
     ELSE IF cmp.op = "Wildcard" THEN <<".", "*">> ELSE <<>>)

RECURSIVE JoinComparators(_, _)
JoinComparators(cs, i) ==
    IF i > Len(cs) THEN <<>>
    ELSE (IF i > 1 THEN <<",", " ">> ELSE <<>>)
         \o ComparatorToString(cs[i]) \o JoinComparators(cs, i + 1)

\* VersionReq's to_string
VersionReqToString(req) ==
    IF req.comparators = <<>> THEN <<"*">>
    ELSE JoinComparators(req.comparators, 1)

(***************************************************************************)
(* semver: the order of pre-release identifiers and VersionReq::matches    *)
(***************************************************************************)
\* str::split('.')
RECURSIVE SplitDots(_, _)
SplitDots(s, cur) ==
    IF s = <<>> THEN <<cur>>
    ELSE IF Head(s) = "." THEN <<cur>> \o SplitDots(Tail(s), <<>>)
    ELSE SplitDots(Tail(s), Append(cur, Head(s)))

\* Ord of byte strings: -1, 0 or 1.
RECURSIVE StringCmp(_, _)
StringCmp(a, b) ==
    IF a = <<>> THEN (IF b = <<>> THEN 0 ELSE -1)
    ELSE IF b = <<>> THEN 1
    ELSE IF ByteRank(Head(a)) < ByteRank(Head(b)) THEN -1
    ELSE IF ByteRank(Head(a)) > ByteRank(Head(b)) THEN 1
    ELSE StringCmp(Tail(a), Tail(b))

AllDigits(seg) == \A i \in 1..Len(seg) : seg[i] \in Digits

\* One step of Prerelease::cmp's loop: 0 when the two segments are equal.
SegmentCmp(l, r) ==
    IF AllDigits(l) /\ AllDigits(r)
    THEN IF Len(l) < Len(r) THEN -1
         ELSE IF Len(l) > Len(r) THEN 1
         ELSE StringCmp(l, r)
    ELSE IF AllDigits(l) THEN -1
    ELSE IF AllDigits(r) THEN 1
    ELSE StringCmp(l, r)

RECURSIVE SegmentsCmp(_, _)
SegmentsCmp(ls, rs) ==
    IF ls = <<>> THEN (IF rs = <<>> THEN 0 ELSE -1)
    ELSE IF rs = <<>> THEN 1
    ELSE IF SegmentCmp(Head(ls), Head(rs)) # 0 THEN SegmentCmp(Head(ls), Head(rs))
    ELSE SegmentsCmp(Tail(ls), Tail(rs))

\* Prerelease::cmp: a release (no pre-release) is greater than a pre-release.
PrereleaseCmp(a, b) ==
    IF a = <<>> THEN (IF b = <<>> THEN 0 ELSE 1)
    ELSE IF b = <<>> THEN -1
    ELSE SegmentsCmp(SplitDots(a, <<>>), SplitDots(b, <<>>))

matches_exact(cmp, ver) ==
    /\ ver.major = cmp.major
    /\ IsSome(cmp.minor) => ver.minor = cmp.minor[1]
    /\ IsSome(cmp.patch) => ver.patch = cmp.patch[1]
    /\ ver.pre = cmp.pre

matches_greater(cmp, ver) ==
    IF ver.major # cmp.major THEN U64Less(cmp.major, ver.major)
    ELSE IF ~IsSome(cmp.minor) THEN FALSE
    ELSE IF ver.minor # cmp.minor[1] THEN U64Less(cmp.minor[1], ver.minor)
    ELSE IF ~IsSome(cmp.patch) THEN FALSE
    ELSE IF ver.patch # cmp.patch[1] THEN U64Less(cmp.patch[1], ver.patch)
    ELSE PrereleaseCmp(ver.pre, cmp.pre) > 0

matches_less(cmp, ver) ==
    IF ver.major # cmp.major THEN U64Less(ver.major, cmp.major)
    ELSE IF ~IsSome(cmp.minor) THEN FALSE
    ELSE IF ver.minor # cmp.minor[1] THEN U64Less(ver.minor, cmp.minor[1])
    ELSE IF ~IsSome(cmp.patch) THEN FALSE
    ELSE IF ver.patch # cmp.patch[1] THEN U64Less(ver.patch, cmp.patch[1])
    ELSE PrereleaseCmp(ver.pre, cmp.pre) < 0

matches_tilde(cmp, ver) ==
    IF ver.major # cmp.major THEN FALSE
    ELSE IF IsSome(cmp.minor) /\ ver.minor # cmp.minor[1] THEN FALSE
    ELSE IF IsSome(cmp.patch) /\ ver.patch # cmp.patch[1]
         THEN U64Less(cmp.patch[1], ver.patch)
    ELSE PrereleaseCmp(ver.pre, cmp.pre) >= 0

matches_caret(cmp, ver) ==
    IF ver.major # cmp.major THEN FALSE
    ELSE IF ~IsSome(cmp.minor) THEN TRUE
    ELSE IF ~IsSome(cmp.patch)
         THEN IF U64Less(U64(0), cmp.major) THEN ~U64Less(ver.minor, cmp.minor[1])
              ELSE ver.minor = cmp.minor[1]
    ELSE IF U64Less(U64(0), cmp.major) /\ ver.minor # cmp.minor[1]
         THEN U64Less(cmp.minor[1], ver.minor)
    ELSE IF U64Less(U64(0), cmp.major) /\ ver.patch # cmp.patch[1]
         THEN U64Less(cmp.patch[1], ver.patch)
    ELSE IF cmp.major = U64(0) /\ U64Less(U64(0), cmp.minor[1]) /\ ver.minor # cmp.minor[1]
         THEN FALSE
    ELSE IF cmp.major = U64(0) /\ U64Less(U64(0), cmp.minor[1]) /\ ver.patch # cmp.patch[1]
         THEN U64Less(cmp.patch[1], ver.patch)
    ELSE IF cmp.major = U64(0) /\ cmp.minor[1] = U64(0)
            /\ (ver.minor # cmp.minor[1] \/ ver.patch # cmp.patch[1])
         THEN FALSE
    ELSE PrereleaseCmp(ver.pre, cmp.pre) >= 0

matches_impl(cmp, ver) ==
    CASE cmp.op \in {"Exact", "Wildcard"} -> matches_exact(cmp, ver)
      [] cmp.op = "Greater" -> matches_greater(cmp, ver)
      [] cmp.op = "GreaterEq" -> matches_exact(cmp, ver) \/ matches_greater(cmp, ver)
      [] cmp.op = "Less" -> matches_less(cmp, ver)
      [] cmp.op = "LessEq" -> matches_exact(cmp, ver) \/ matches_less(cmp, ver)
      [] cmp.op = "Tilde" -> matches_tilde(cmp, ver)
      [] cmp.op = "Caret" -> matches_caret(cmp, ver)

pre_is_compatible(cmp, ver) ==
    /\ cmp.major = ver.major
    /\ cmp.minor = Some(ver.minor)
    /\ cmp.patch = Some(ver.patch)
    /\ cmp.pre # <<>>

\* VersionReq::matches: every comparator accepts the version, and a version
\* with a pre-release tag needs a comparator on the same major.minor.patch
\* that has a pre-release tag too.
matches(req, ver) ==
    /\ \A i \in 1..Len(req.comparators) : matches_impl(req.comparators[i], ver)
    /\ \/ ver.pre = <<>>
       \/ \E i \in 1..Len(req.comparators) : pre_is_compatible(req.comparators[i], ver)

(***************************************************************************)
(* PythonPackage                                                           *)
(***************************************************************************)
\* PythonPackage::parse, from its last step back to its first.  tag is "ok"
\* or "err"; kind names the error; name and version_str are the captures.
ParseRequirement(captures, r) ==
    IF r.ok
    THEN [tag |-> "ok", kind |-> "",
          name |-> captures.name, version_str |-> captures.rest, req |-> r.req]
    ELSE [tag |-> "err", kind |-> "InvalidRequirement",
          name |-> captures.name, version_str |-> captures.rest, req |-> STAR]

ParseCaptures(captures) ==
    IF ~captures.ok
    THEN [tag |-> "err", kind |-> "InvalidFormat",
          name |-> <<>>, version_str |-> <<>>, req |-> STAR]
    ELSE IF captures.rest = <<>>
    THEN [tag |-> "ok", kind |-> "",
          name |-> captures.name, version_str |-> <<>>, req |-> STAR]
    ELSE ParseRequirement(captures, VersionReqFromStr(Cleaned(captures.rest)))

parse(input) == ParseCaptures(RegexCaptures(input))

\* The literal "a.b.c".
V(a, b, c) ==
    ToDecimal(U64(a)) \o <<".">> \o ToDecimal(U64(b)) \o <<".">> \o ToDecimal(U64(c))

\* A variant of the list without "1.0.0".
test_versions_Missing ==
    <<V(0, 1, 0), V(2, 0, 0), V(3, 0, 0), V(4, 0, 0), V(5, 0, 0),
      V(6, 0, 0), V(7, 0, 0),
      V(1, 2, 3), V(2, 3, 4), V(3, 4, 5), V(4, 5, 6), V(5, 6, 7),
      V(1, 0, 1), V(2, 0, 1), V(3, 0, 1), V(4, 0, 1), V(5, 0, 1)>>

test_versions ==
    <<V(0, 1, 0), V(1, 0, 0), V(2, 0, 0), V(3, 0, 0), V(4, 0, 0), V(5, 0, 0),
      V(6, 0, 0), V(7, 0, 0),
      V(1, 2, 3), V(2, 3, 4), V(3, 4, 5), V(4, 5, 6), V(5, 6, 7),
      V(1, 0, 1), V(2, 0, 1), V(3, 0, 1), V(4, 0, 1), V(5, 0, 1)>>

\* A variant with matches_self || matches_other.
BothMatch_Either(self, other, version) ==
    /\ version.ok
    /\ matches(self.req, version.ver) \/ matches(other.req, version.ver)

\* A variant that tests matches_self alone.
BothMatch_SelfOnly(self, other, version) ==
    /\ version.ok
    /\ matches(self.req, version.ver)

\* matches_self && matches_other, for a test version that parsed.
BothMatch(self, other, version) ==
    /\ version.ok
    /\ matches(self.req, version.ver)
    /\ matches(other.req, version.ver)

\* The loop of conflicts_with from the i-th test version on: the result, and
\* how many test versions were looked at.
RECURSIVE ProbeLoop(_, _, _)
ProbeLoop(self, other, i) ==
    IF i > Len(test_versions) THEN [result |-> TRUE, probed |-> i - 1]
    ELSE IF BothMatch(self, other, VersionParse(test_versions[i]))
         THEN [result |-> FALSE, probed |-> i]
         ELSE ProbeLoop(self, other, i + 1)

\* A variant without the comparison of the names.
conflicts_with_NoNameCheck(self, other) == ProbeLoop(self, other, 1)

\* PythonPackage::conflicts_with
conflicts_with(self, other) ==
    IF self.name # other.name THEN [result |-> FALSE, probed |-> 0]
    ELSE ProbeLoop(self, other, 1)

(***************************************************************************)
(* Inputs                                                                  *)
(***************************************************************************)
\* Largest major number of the versions written in the inputs.
MaxMajor == 1

\* Longest arbitrary string among the inputs of parse.
MaxLen == 3

\* Python's operators.
PyOps ==
    {<<">", "=">>, <<"<", "=">>, <<"=", "=">>, <<"~", "=">>, <<"!", "=">>,
     <<"<">>, <<">">>}

\* Versions major.minor.patch with small numbers: 0.1.0, 1.0.0 and 1.0.1 are
\* test versions, the others are not.
PlainVersions == {V(a, b, c) : a \in 0..MaxMajor, b \in {0, 1}, c \in {0, 1}}

\* u64::MAX, and the number that follows it.
U64MaxText ==
    <<"1", "8", "4", "4", "6", "7", "4", "4", "0", "7", "3", "7", "0", "9", "5",
      "5", "1", "6", "1", "5">>

U64OverText ==
    <<"1", "8", "4", "4", "6", "7", "4", "4", "0", "7", "3", "7", "0", "9", "5",
      "5", "1", "6", "1", "6">>

\* The command lines of main: valid specifiers of two packages, one of them
\* with the largest u64, and some strings parse rejects.
MainOps == PyOps \ {<<"!", "=">>}

Specifiers ==
    {<<"a">>, <<"b">>}
    \cup {n \o o \o v : n \in {<<"a">>, <<"b">>}, o \in MainOps, v \in PlainVersions}
    \cup {<<"a", "<", "=">> \o U64MaxText}

Rejected ==
    {<<>>, <<"@", "a">>, <<"a", "@", "1">>, <<"a", "!", "=", "1">>, <<"a", LF>>,
     <<"a", "=", "=">> \o U64OverText}

MainInputs == Specifiers \cup Rejected

\* The inputs of the direct calls of parse: every string of at most MaxLen
\* characters of Alphabet, and specifiers whose versions carry pre-release
\* tags and build metadata, lack a part, or have a leading zero.
Alphabet == {"a", "1", "-", "=", "@", LF}

ShortStrings == UNION {[1..n -> Alphabet] : n \in 0..MaxLen}

Suffixes ==
    {<<>>, <<"-", "a">>, <<"-", "a", ".", "1">>, <<"+", "b">>,
     <<"-", "a", "+", "b">>}

VersionTexts ==
    {v \o x : v \in PlainVersions \cup {V(10, 2, 0)}, x \in Suffixes}

PartialTexts ==
    {<<"1">>, <<"1", ".", "0">>, <<"1", ".", "2", "0">>,
     <<"0", "1", ".", "0", ".", "0">>, <<"1", ".", "0", "-", "a">>,
     U64MaxText, U64OverText, <<"1", ".">> \o U64OverText}

Names == {<<"a">>, <<"A", "_", "b", "-", "1">>}

RawInputs ==
    ShortStrings
    \cup {n \o o \o v : n \in Names, o \in PyOps, v \in VersionTexts \cup PartialTexts}

\* The versions the direct calls of matches are given.
MatchVersions == {v \o x : v \in PlainVersions, x \in {<<>>, <<"-", "a">>}}

(***************************************************************************)
(* The calls, as explicit tables: each is evaluated once                    *)
(***************************************************************************)
\* parse(input) for every input of the model.
ParseOf == [input \in MainInputs \cup RawInputs |-> parse(input)] @@ <<>>

\* version_req.to_string() for every requirement parse returns.
ToStringOf ==
    [req \in {ParseOf[input].req : input \in DOMAIN ParseOf} |->
        VersionReqToString(req)] @@ <<>>

\* The packages main can hold after its two calls of parse.
Packages == {ParseOf[input] : input \in {i \in MainInputs : ParseOf[i].tag = "ok"}}

\* self.conflicts_with(other) for every two of them.
ConflictsOf ==
    [self \in Packages, other \in Packages |-> conflicts_with(self, other)] @@ <<>>

\* Version::parse(v) for every version given to matches directly.
VersionOf == [v \in MatchVersions |-> VersionParse(v)] @@ <<>>

(***************************************************************************)
(* State                                                                   *)
(***************************************************************************)
VARIABLES
    pc,        \* the statement about to run
    pkg1,      \* args.pkg1
    pkg2,      \* args.pkg2
    p1,        \* what parse(&args.pkg1) returned
    p2,        \* what parse(&args.pkg2) returned
    printed,   \* the lines written that show a package or a requirement
    findings,  \* the findings written, in order
    exit,      \* "running", then "ok" (main returned Ok) or "error" (Err)
    ret,       \* the call of conflicts_with: whether made, and its result
    given,     \* the version given to matches in a direct call
    matched    \* what that call of matches returned

vars == <<pc, pkg1, pkg2, p1, p2, printed, findings, exit, ret, given, matched>>

Unparsed ==
    [tag |-> "none", kind |-> "", name |-> <<>>, version_str |-> <<>>, req |-> STAR]

NotCalled == [called |-> FALSE, result |-> FALSE, probed |-> 0]

Called(r) == [called |-> TRUE, result |-> r.result, probed |-> r.probed]

Blank ==
    /\ p1 = Unparsed
    /\ p2 = Unparsed
    /\ printed = <<>>
    /\ findings = <<>>
    /\ exit = "running"
    /\ ret = NotCalled
    /\ given = <<>>
    /\ matched = FALSE

(***************************************************************************)
(* main                                                                    *)
(***************************************************************************)
Init ==
    /\ pc = "parse1"
    /\ pkg1 \in MainInputs
    /\ pkg2 \in MainInputs
    /\ Blank

\* let pkg1 = PythonPackage::parse(&args.pkg1)?;
Parse1 ==
    /\ pc = "parse1"
    /\ p1' = ParseOf[pkg1]
    /\ IF p1'.tag = "err"
       THEN pc' = "done" /\ exit' = "error"
       ELSE pc' = "parse2" /\ exit' = exit
    /\ UNCHANGED <<pkg1, pkg2, p2, printed, findings, ret, given, matched>>

\* A variant that goes on when pkg2 does not parse.
Parse2_Lenient ==
    /\ pc = "parse2"
    /\ p2' = ParseOf[pkg2]
    /\ pc' = "print"
    /\ UNCHANGED <<pkg1, pkg2, p1, printed, findings, exit, ret, given, matched>>

\* let pkg2 = PythonPackage::parse(&args.pkg2)?;
Parse2 ==
    /\ pc = "parse2"
    /\ p2' = ParseOf[pkg2]
    /\ IF p2'.tag = "err"
       THEN pc' = "done" /\ exit' = "error"
       ELSE pc' = "print" /\ exit' = exit
    /\ UNCHANGED <<pkg1, pkg2, p1, printed, findings, ret, given, matched>>

\* The three println! that show the two packages.
PrintPackages ==
    /\ pc = "print"
    /\ printed' = printed \o
           << p1.name \o <<" ">> \o ToStringOf[p1.req],
              p2.name \o <<" ">> \o ToStringOf[p2.req] >>
    /\ pc' = "names"
    /\ UNCHANGED <<pkg1, pkg2, p1, p2, findings, exit, ret, given, matched>>

\* A variant without the return.
CompareNames_NoReturn ==
    /\ pc = "names"
    /\ findings' = IF p1.name # p2.name
                   THEN Append(findings, "DifferentPackages")
                   ELSE findings
    /\ pc' = "detect"
    /\ UNCHANGED <<pkg1, pkg2, p1, p2, printed, exit, ret, given, matched>>

\* if pkg1.name != pkg2.name { println!(...); return Ok(()); }
CompareNames ==
    /\ pc = "names"
    /\ IF p1.name # p2.name
       THEN /\ findings' = Append(findings, "DifferentPackages")
            /\ exit' = "ok"
            /\ pc' = "done"
       ELSE /\ pc' = "detect"
            /\ UNCHANGED <<findings, exit>>
    /\ UNCHANGED <<pkg1, pkg2, p1, p2, printed, ret, given, matched>>

\* The condition of the second if: pkg1.conflicts_with(&pkg2).
Detect ==
    /\ pc = "detect"
    /\ ret' = Called(ConflictsOf[p1, p2])
    /\ pc' = "report"
    /\ UNCHANGED <<pkg1, pkg2, p1, p2, printed, findings, exit, given, matched>>

\* A variant with the two branches exchanged.
Report_Swapped ==
    /\ pc = "report"
    /\ findings' = Append(findings, IF ret.result THEN "NoConflict" ELSE "Conflict")
    /\ pc' = "return"
    /\ UNCHANGED <<pkg1, pkg2, p1, p2, printed, exit, ret, given, matched>>

\* The two branches of the second if.
Report ==
    /\ pc = "report"
    /\ findings' = Append(findings, IF ret.result THEN "Conflict" ELSE "NoConflict")
    /\ pc' = "return"
    /\ UNCHANGED <<pkg1, pkg2, p1, p2, printed, exit, ret, given, matched>>

\* Ok(())
Return ==
    /\ pc = "return"
    /\ exit' = "ok"
    /\ pc' = "done"
    /\ UNCHANGED <<pkg1, pkg2, p1, p2, printed, findings, ret, given, matched>>

Next ==
    \/ Parse1
    \/ Parse2
    \/ PrintPackages
    \/ CompareNames
    \/ Detect
    \/ Report
    \/ Return

Spec == Init /\ [][Next]_vars

\* main under fairness: it is one sequential thread, so a statement that
\* can run does run.
FairSpec == Spec /\ WF_vars(Next)

(***************************************************************************)
(* Direct calls: parse and to_string as the unit tests make them, and      *)
(* matches on a version given to it                                        *)
(***************************************************************************)
CallInit ==
    /\ pc = "call_parse"
    /\ pkg1 \in RawInputs
    /\ pkg2 = <<>>
    /\ Blank

\* PythonPackage::parse(input)
CallParse ==
    /\ pc = "call_parse"
    /\ p1' = ParseOf[pkg1]
    /\ pc' = IF p1'.tag = "ok" THEN "call_to_string" ELSE "call_failed"
    /\ UNCHANGED <<pkg1, pkg2, p2, printed, findings, exit, ret, given, matched>>

\* pkg.version_req.to_string()
CallToString ==
    /\ pc = "call_to_string"
    /\ printed' = <<ToStringOf[p1.req]>>
    /\ pc' = "call_matches"
    /\ UNCHANGED <<pkg1, pkg2, p1, p2, findings, exit, ret, given, matched>>

\* pkg.version_req.matches(&Version::parse(v).unwrap())
MatchesCall(v, version) ==
    /\ version.ok
    /\ given' = v
    /\ matched' = matches(p1.req, version.ver)

CallMatches ==
    /\ pc = "call_matches"
    /\ \E v \in MatchVersions : MatchesCall(v, VersionOf[v])
    /\ pc' = "call_matched"
    /\ UNCHANGED <<pkg1, pkg2, p1, p2, printed, findings, exit, ret>>

CallNext ==
    \/ CallParse
    \/ CallToString
    \/ CallMatches

CallSpec == CallInit /\ [][CallNext]_vars

(***************************************************************************)
(* Properties of main and conflicts_with, checked under Spec               *)
(***************************************************************************)
\* The 18 versions the specification lists, as numbers.
ListedVersions ==
    << <<0, 1, 0>>, <<1, 0, 0>>, <<2, 0, 0>>, <<3, 0, 0>>, <<4, 0, 0>>,
       <<5, 0, 0>>, <<6, 0, 0>>, <<7, 0, 0>>,
       <<1, 2, 3>>, <<2, 3, 4>>, <<3, 4, 5>>, <<4, 5, 6>>, <<5, 6, 7>>,
       <<1, 0, 1>>, <<2, 0, 1>>, <<3, 0, 1>>, <<4, 0, 1>>, <<5, 0, 1>> >>

Release(t) ==
    [major |-> U64(t[1]), minor |-> U64(t[2]), patch |-> U64(t[3]), pre |-> <<>>]

\* Both parsed requirements accept the version v.
AcceptedByBoth(v) == matches(p1.req, v) /\ matches(p2.req, v)

ListedAccepted == {i \in 1..Len(ListedVersions) : AcceptedByBoth(Release(ListedVersions[i]))}

BothParsed == p1.tag = "ok" /\ p2.tag = "ok"

\* C1: for two parsed specifiers of the same name, conflicts_with returns
\* true if and only if none of the 18 listed versions is accepted by both
\* requirements, and it returns false at the first listed version accepted
\* by both, having looked at no later one.
C1_ConflictIffNoListedVersion ==
    ret.called =>
        /\ ret.result <=> ListedAccepted = {}
        /\ ret.result => ret.probed = Len(ListedVersions)
        /\ ~ret.result =>
              /\ ret.probed \in ListedAccepted
              /\ \A j \in ListedAccepted : ret.probed <= j

C1_Witness == ret.called /\ ~ret.result /\ ret.probed >= 3

\* The release versions with small numbers, test versions or not.
SmallReleases ==
    {Release(<<a, b, c>>) : a \in 0..MaxMajor, b \in {0, 1}, c \in {0, 1}}

\* C2 as stated: for two parsed specifiers of the same package, whenever
\* some semantic version satisfies both requirements, main reports
\* "No conflict detected".
C2_AsStated ==
    (pc = "done" /\ BothParsed /\ p1.name = p2.name
        /\ \E v \in SmallReleases : AcceptedByBoth(v))
    => findings = <<"NoConflict">>

\* C2, amended: for two parsed specifiers of the same package, main reports
\* "No conflict detected" whenever one of the 18 listed versions satisfies
\* both requirements, and "CONFLICT DETECTED!" whenever none of them does.
C2_NoConflictIffListedVersion ==
    (pc = "done" /\ BothParsed /\ p1.name = p2.name)
    => /\ ListedAccepted # {} => findings = <<"NoConflict">>
       /\ ListedAccepted = {} => findings = <<"Conflict">>

\* a==1.0.0 and a>=1.0.0: an exact version on the inclusive bound of a range.
C2_Witness ==
    /\ pc = "done"
    /\ pkg1 = <<"a", "=", "=">> \o V(1, 0, 0)
    /\ pkg2 = <<"a", ">", "=">> \o V(1, 0, 0)
    /\ findings = <<"NoConflict">>

\* C3: conflicts_with is symmetric: for two parsed specifiers, of the same
\* name or not, conflicts_with(a, b) = conflicts_with(b, a); the call main
\* makes returns what the call with the arguments exchanged returns.
C3_Symmetric ==
    BothParsed =>
        /\ conflicts_with(p1, p2).result = conflicts_with(p2, p1).result
        /\ ret.called => ret.result = conflicts_with(p2, p1).result

C3_Witness == ret.called /\ ret.result /\ p1.req # p2.req

\* C4: when the two parsed specifiers have different names, main reports
\* "different packages" and returns Ok without calling conflicts_with and
\* without looking at any test version, and conflicts_with itself returns
\* false for them, having looked at none.
C4_DifferentNames ==
    (BothParsed /\ p1.name # p2.name) =>
        /\ ~ret.called
        /\ pc \in {"print", "names", "done"}
        /\ pc = "done" => findings = <<"DifferentPackages">> /\ exit = "ok"
        /\ pc # "done" => findings = <<>>
        /\ conflicts_with(p1, p2) = [result |-> FALSE, probed |-> 0]

\* a>=1.0.0 and b<1.0.0: requirements no version satisfies together.
C4_Witness ==
    /\ pc = "done"
    /\ pkg1 = <<"a", ">", "=">> \o V(1, 0, 0)
    /\ pkg2 = <<"b", "<">> \o V(1, 0, 0)
    /\ findings = <<"DifferentPackages">>

\* C5: if either input does not parse, main returns the error, and nothing
\* is shown of either package, the names are not compared, no test version
\* is looked at and no finding is written, at any point of the run.
C5_ParseFailure ==
    (ParseOf[pkg1].tag = "err" \/ ParseOf[pkg2].tag = "err") =>
        /\ pc \in {"parse1", "parse2", "done"}
        /\ printed = <<>>
        /\ findings = <<>>
        /\ ~ret.called
        /\ exit # "ok"
        /\ pc = "done" => exit = "error"

\* The first input parsed and the second did not.
C5_Witness == pc = "done" /\ exit = "error" /\ p1.tag = "ok" /\ p2.tag = "err"

\* The specifier is name==X for a version X of three numbers.
ExactOf(input) ==
    {t \in (0..MaxMajor + 1) \X {0, 1} \X {0, 1} :
        \E n \in {<<"a">>, <<"b">>} : input = n \o <<"=", "=">> \o V(t[1], t[2], t[3])}

Listed(t) == \E i \in 1..Len(ListedVersions) : ListedVersions[i] = t

\* C10 as stated: a specifier name==X never conflicts with itself.
C10_AsStated ==
    (ret.called /\ pkg1 = pkg2 /\ ExactOf(pkg1) # {}) => ~ret.result

\* C10, amended: a specifier name==X, X a version of three numbers, does
\* not conflict with itself if X is one of the 18 listed versions, and
\* conflicts with itself if X is not.
C10_SelfConflictIffUnlisted ==
    (ret.called /\ pkg1 = pkg2) =>
        \A t \in ExactOf(pkg1) : ret.result <=> ~Listed(t)

\* a==1.0.0 against itself.
C10_Witness ==
    /\ ret.called
    /\ pkg1 = pkg2
    /\ pkg1 = <<"a", "=", "=">> \o V(1, 0, 0)
    /\ ~ret.result

(***************************************************************************)
(* Termination of main, checked under FairSpec                             *)
(***************************************************************************)
BothParse == ParseOf[pkg1].tag = "ok" /\ ParseOf[pkg2].tag = "ok"

Findings == {"DifferentPackages", "NoConflict", "Conflict"}

\* C6: if both inputs parse, main writes at most one finding at any time,
\* every run of it ends, and it ends returning Ok with exactly one of the
\* three findings written, also when that finding is a conflict.
C6_OneFindingThenOk ==
    /\ [](BothParse => Len(findings) <= 1)
    /\ [](BothParse /\ pc = "done" =>
            exit = "ok" /\ Len(findings) = 1 /\ findings[1] \in Findings)
    /\ (BothParse ~> (pc = "done" /\ exit = "ok" /\ Len(findings) = 1))

C6_Witness == pc = "done" /\ exit = "ok" /\ findings = <<"Conflict">>

(***************************************************************************)
(* Properties of parse, to_string and matches, checked under CallSpec      *)
(***************************************************************************)
\* A manual scan: the length of the longest leading run of name characters.
RECURSIVE LeadingRun(_)
LeadingRun(s) ==
    IF s = <<>> THEN 0
    ELSE IF IsNameChar(Head(s)) THEN 1 + LeadingRun(Tail(s))
    ELSE 0

Has(s, c) == \E i \in 1..Len(s) : s[i] = c

Parsed == pc # "call_parse"

Shown == pc \in {"call_matches", "call_matched"}

\* C7 as stated: an input that is only an identifier parses to the name
\* equal to the input and a requirement shown as "*" that matches every
\* version, those with a pre-release tag included.
C7_AsStated ==
    LeadingRun(pkg1) = Len(pkg1) /\ pkg1 # <<>> =>
        /\ Parsed => p1.tag = "ok" /\ p1.name = pkg1
        /\ Shown => printed = << <<"*">> >>
        /\ pc = "call_matched" => matched

\* C8 as stated: parse fails with InvalidFormat if the input is empty or
\* its first character is no name character; otherwise it does not fail
\* with InvalidFormat, name is the longest leading run of name characters,
\* version_str all the rest, and name followed by version_str is the input.
C8_AsStated ==
    Parsed =>
        IF LeadingRun(pkg1) = 0
        THEN p1.tag = "err" /\ p1.kind = "InvalidFormat"
        ELSE /\ p1.kind # "InvalidFormat"
             /\ p1.name = SubSeq(pkg1, 1, LeadingRun(pkg1))
             /\ p1.version_str = Drop(pkg1, LeadingRun(pkg1))
             /\ p1.name \o p1.version_str = pkg1

\* Python's operator and what the requirement shows for it.
ShownOps ==
    { << <<"=", "=">>, <<"=">> >>,
      << <<">", "=">>, <<">", "=">> >>,
      << <<"<", "=">>, <<"<", "=">> >>,
      << <<"<">>, <<"<">> >>,
      << <<"~", "=">>, <<"~">> >> }

\* Where the build metadata of a version text starts.
PlusAt(x) == CHOOSE i \in 1..Len(x) : x[i] = "+"

\* The versions X for which the input is name, operator o[1], X.
OperandsOf(input, o) ==
    {x \in VersionTexts : \E n \in Names : input = n \o o[1] \o x}

\* C9 as stated: for every valid version X, name==X parses and its
\* requirement is shown as =X, and likewise >=X as >=X, <=X as <=X, <X as
\* <X and ~=X as ~X.
C9_AsStated ==
    \A o \in ShownOps : \A x \in OperandsOf(pkg1, o) :
        /\ Parsed => p1.tag = "ok"
        /\ Shown => printed = <<o[2] \o x>>

\* C9, amended: for every valid version X without build metadata, name==X
\* parses and its requirement is shown as =X, and likewise >=X as >=X, <=X
\* as <=X, <X as <X and ~=X as ~X; of a version X+B with build metadata B
\* the requirement shows the operator and X alone.
C9_RoundTrip ==
    \A o \in ShownOps : \A x \in OperandsOf(pkg1, o) :
        /\ Parsed => p1.tag = "ok"
        /\ Shown /\ ~Has(x, "+") => printed = <<o[2] \o x>>
        /\ Shown /\ Has(x, "+") =>
              printed = <<o[2] \o SubSeq(x, 1, PlusAt(x) - 1)>>

\* A_b-1==10.2.0-a.1
C9_Witness ==
    /\ Shown
    /\ pkg1 = <<"A", "_", "b", "-", "1", "=", "=">> \o V(10, 2, 0) \o <<"-", "a", ".", "1">>
    /\ printed = << <<"=">> \o V(10, 2, 0) \o <<"-", "a", ".", "1">> >>

====
